---- MODULE Spec2Model ----
(***************************************************************************)
(* A model of src/vector.h: RawMemory<T> (an owned block of raw slots)    *)
(* and Vector<T> (a growable array built on one RawMemory).               *)
(*                                                                         *)
(* The heap is a function from addresses to blocks; a block is a sequence *)
(* of slots.  A slot is Raw (no object lives there), Moved (an object     *)
(* lives there but it has been moved from) or a value 0..MaxVal (0 is the *)
(* value of a value-initialised T).  The address 0 is nullptr.            *)
(*                                                                         *)
(* Every method is an operator from the object and an execution context   *)
(* (the heap and the events of the call) to the object and the context it *)
(* leaves, one LET step per statement of the method.  Every public call   *)
(* is an action.  Spec runs two Vectors, "a" and "b", with calls not      *)
(* recorded; SpecOne runs the Vector "a" alone and records each call, its *)
(* arguments, the state it found and the events it caused in `last`;      *)
(* SpecTwo records the calls on two Vectors with small blocks.  A call    *)
(* that throws is not a step of those three; SpecThrow adds to SpecOne    *)
(* the calls of Reserve, PushBack and Insert that end in an exception.    *)
(* SpecRaw runs RawMemory objects on their own.                           *)
(***************************************************************************)
EXTENDS Integers, Sequences, FiniteSets, TLC

\* ---------------------------------------------------------------- bounds
MaxCap == 4
MaxVal == 1
NAddr == 3
HeapSlots == 6
MaxThrowAt == 3
MaxCapThrow == 3
MaxLeaked == 0
MaxCapTwo == 2

\* ------------------------------------------------------------- constants
Raw == -1
Moved == -2
DefaultVal == 0
NullPtr == 0

VecIds == {"a", "b"}
RawIds == {"p", "q"}
Addr == 1..NAddr
Values == 0..MaxVal
ElemTypes == { [nothrow_move |-> TRUE, copyable |-> TRUE],
               [nothrow_move |-> FALSE, copyable |-> TRUE],
               [nothrow_move |-> FALSE, copyable |-> FALSE] }

VARIABLES
    elemType,   \* the traits of the element type T the Vector is instantiated with
    vec,        \* the Vector objects: alive, data_ (buffer_, capacity_), size_
    blocks,     \* the RawMemory objects a program holds on their own: alive, data (buffer_, capacity_)
    mem,        \* the heap: address -> block (<<>> when the address is not allocated)
    trace,      \* ghost: whether the calls are being recorded in `last`
    last,       \* ghost: the last public operation, its arguments, its pre-state and its events
    balance,    \* ghost: element constructions minus element destructions so far
    err         \* ghost: the misuses of storage seen so far (double free, double destruction, ...)

vars == <<elemType, vec, blocks, mem, trace, last, balance, err>>

\* ------------------------------------------------------ execution context
\* The heap together with the events an instrumented element type and an
\* instrumented allocator would record while one public operation runs.
\* umoved, ucopied: the elements built by std::uninitialized_move_n and by
\* std::uninitialized_copy_n.
\* fuse = k > 0: the k-th element construction that is able to throw does
\* throw; fuse = 0: none throws.  moveThrows: T's move constructor is one of them.
Ctx(m) ==
    [mem |-> m, ctors |-> 0, dtors |-> 0, assigns |-> 0,
     allocs |-> <<>>, frees |-> <<>>, err |-> {}, threw |-> FALSE,
     umoved |-> 0, ucopied |-> 0, fuse |-> 0, moveThrows |-> FALSE]

\* the context of a call in which the k-th throwing construction of a T throws
CtxThrowing(m, t, k) ==
    [Ctx(m) EXCEPT !.fuse = k, !.moveThrows = ~t.nothrow_move]

Min(S) == CHOOSE x \in S : \A y \in S : x <= y

FreeAddrs(m) == {a \in Addr : m[a] = <<>>}

RECURSIVE SumLen(_, _)
SumLen(m, S) ==
    IF S = {} THEN 0
    ELSE LET a == CHOOSE x \in S : TRUE IN Len(m[a]) + SumLen(m, S \ {a})

\* the slots of the heap that are in use
UsedSlots(m) == SumLen(m, Addr)

\* ------------------------------------------------------------- RawMemory
NullRaw == [buffer_ |-> NullPtr, capacity_ |-> 0]

\* RawMemory::Allocate: operator new for n != 0, nullptr for n = 0.  operator
\* new throws std::bad_alloc when the heap has no room for the block.
Allocate(e, n) ==
    IF n = 0 THEN [e |-> e, ptr |-> NullPtr]
    ELSE IF FreeAddrs(e.mem) = {} \/ UsedSlots(e.mem) + n > HeapSlots
    THEN [e |-> [e EXCEPT !.threw = TRUE], ptr |-> NullPtr]
    ELSE LET p == Min(FreeAddrs(e.mem))
         IN [e |-> [e EXCEPT !.mem[p] = [i \in 1..n |-> Raw],
                             !.allocs = Append(@, p)],
             ptr |-> p]

\* RawMemory::Deallocate: operator delete; deleting nullptr does nothing.
Deallocate(e, buf) ==
    IF buf = NullPtr THEN e
    ELSE [e EXCEPT !.mem[buf] = <<>>,
                   !.frees = Append(@, buf),
                   !.err = @ \cup (IF e.mem[buf] = <<>> THEN {"double_free"} ELSE {})
                             \cup (IF \E i \in DOMAIN e.mem[buf] : e.mem[buf][i] # Raw
                                   THEN {"freed_live_elements"} ELSE {})]

\* RawMemory(size_t capacity)
RawMemoryN(e, capacity) ==
    LET al == Allocate(e, capacity)
    IN [e |-> al.e, raw |-> [buffer_ |-> al.ptr, capacity_ |-> capacity]]

\* ~RawMemory
RawDtor(e, raw) == Deallocate(e, raw.buffer_)

\* RawMemory(RawMemory&& other): returns the new object and what is left of other.
RawMoveCtor(other) == [self |-> other, other |-> NullRaw]

\* RawMemory::operator=(RawMemory&& rhs): the old buffer_ of self is overwritten.
RawMoveAssign(self, rhs) == [self |-> rhs, rhs |-> NullRaw]

\* RawMemory::Swap that exchanges buffer_ and forgets capacity_
RawSwap_KeepsCapacity(self, other) ==
    [self |-> [self EXCEPT !.buffer_ = other.buffer_],
     other |-> [other EXCEPT !.buffer_ = self.buffer_]]

\* RawMemory::Swap
RawSwap(self, other) == [self |-> other, other |-> self]

\* std::swap(RawMemory&, RawMemory&): T tmp(move(a)); a = move(b); b = move(tmp); ~tmp.
StdSwapRaw(e, a, b) ==
    LET s1 == RawMoveCtor(a)                    \* tmp = s1.self, a = s1.other
        s2 == RawMoveAssign(s1.other, b)        \* a = s2.self, b = s2.rhs
        s3 == RawMoveAssign(s2.rhs, s1.self)    \* b = s3.self, tmp = s3.rhs
    IN [e |-> RawDtor(e, s3.rhs), a |-> s2.self, b |-> s3.self]

\* RawMemory::operator=(RawMemory&&) with &rhs == this: std::exchange hands
\* the old buffer_ and capacity_ back to the object it has just cleared.
RawMoveAssignSelf(self) == self

\* std::swap(x, x) of one RawMemory with itself
StdSwapRawSelf(e, a) ==
    LET s1 == RawMoveCtor(a)
        s2 == RawMoveAssignSelf(s1.other)
        s3 == RawMoveAssign(s2, s1.self)
    IN [e |-> RawDtor(e, s3.rhs), a |-> s3.self]

\* ------------------------------------------- element lifetime primitives
Slot(e, buf, i) == e.mem[buf][i + 1]

\* placement new of one element with value x at slot i of block buf
ConstructAt(e, buf, i, x) ==
    [e EXCEPT !.mem[buf][i + 1] = x,
              !.ctors = @ + 1,
              !.err = @ \cup (IF e.mem[buf][i + 1] # Raw THEN {"constructed_over_live"} ELSE {})
                        \cup (IF x = Raw THEN {"read_of_raw"} ELSE {})]

\* placement new through a constructor that can throw: nothing is built by
\* the construction that throws, and nothing runs after it
ConstructOrThrow(e, buf, i, x) ==
    IF e.threw THEN e
    ELSE IF e.fuse = 1 THEN [e EXCEPT !.threw = TRUE, !.fuse = 0]
    ELSE ConstructAt([e EXCEPT !.fuse = IF @ > 0 THEN @ - 1 ELSE 0], buf, i, x)

\* Vector::Destroy: buf->~T()
Destroy(e, buf, i) ==
    [e EXCEPT !.mem[buf][i + 1] = Raw,
              !.dtors = @ + 1,
              !.err = @ \cup (IF e.mem[buf][i + 1] = Raw THEN {"destroyed_raw"} ELSE {})]

\* dst = src (copy assignment of one element)
CopyAssign(e, sbuf, si, dbuf, di) ==
    [e EXCEPT !.mem[dbuf][di + 1] = e.mem[sbuf][si + 1],
              !.assigns = @ + 1,
              !.err = @ \cup (IF Raw \in {e.mem[sbuf][si + 1], e.mem[dbuf][di + 1]}
                              THEN {"assigned_raw"} ELSE {})]

\* dst = x, with x a value of the caller's
AssignValue(e, buf, i, x) ==
    [e EXCEPT !.mem[buf][i + 1] = x,
              !.assigns = @ + 1,
              !.err = @ \cup (IF e.mem[buf][i + 1] = Raw THEN {"assigned_raw"} ELSE {})]

\* dst = std::move(src) (move assignment of one element), src # dst
MoveAssign(e, sbuf, si, dbuf, di) ==
    [e EXCEPT !.mem[dbuf][di + 1] = e.mem[sbuf][si + 1],
              !.mem[sbuf][si + 1] = Moved,
              !.assigns = @ + 1,
              !.err = @ \cup (IF Raw \in {e.mem[sbuf][si + 1], e.mem[dbuf][di + 1]}
                              THEN {"assigned_raw"} ELSE {})]

\* new (dst) T(std::move(src))
MoveConstruct(e, sbuf, si, dbuf, di) ==
    LET x == e.mem[sbuf][si + 1]
        e1 == IF e.moveThrows THEN ConstructOrThrow(e, dbuf, di, x)
              ELSE ConstructAt(e, dbuf, di, x)
    IN IF e.threw THEN e
       ELSE IF e1.threw THEN e1
       ELSE [e1 EXCEPT !.mem[sbuf][si + 1] = Moved]

\* new (dst) T(src)
CopyConstruct(e, sbuf, si, dbuf, di) ==
    ConstructOrThrow(e, dbuf, di, e.mem[sbuf][si + 1])

RECURSIVE DestroyN(_, _, _, _)
\* std::destroy_n(buf + i, n)
DestroyN(e, buf, i, n) ==
    IF n = 0 THEN e ELSE DestroyN(Destroy(e, buf, i), buf, i + 1, n - 1)

RECURSIVE UninitializedValueConstructN(_, _, _, _)
\* std::uninitialized_value_construct_n(buf + i, n)
UninitializedValueConstructN(e, buf, i, n) ==
    IF n = 0 THEN e
    ELSE UninitializedValueConstructN(ConstructAt(e, buf, i, DefaultVal), buf, i + 1, n - 1)

RECURSIVE UninitializedMoveN(_, _, _, _, _, _)
\* std::uninitialized_move_n(src + si, n, dst + di): the first n - 1, then
\* the n-th; if that one throws, the n - 1 built so far are destroyed.
UninitializedMoveN(e, sbuf, si, n, dbuf, di) ==
    IF n = 0 \/ e.threw THEN e
    ELSE LET e1 == UninitializedMoveN(e, sbuf, si, n - 1, dbuf, di)
             e2 == MoveConstruct(e1, sbuf, si + n - 1, dbuf, di + n - 1)
         IN IF e1.threw THEN e1
            ELSE IF e2.threw THEN DestroyN(e2, dbuf, di, n - 1)
            ELSE [e2 EXCEPT !.umoved = @ + 1]

RECURSIVE UninitializedCopyN(_, _, _, _, _, _)
\* std::uninitialized_copy_n(src + si, n, dst + di): the first n - 1, then
\* the n-th; if that one throws, the n - 1 built so far are destroyed.
UninitializedCopyN(e, sbuf, si, n, dbuf, di) ==
    IF n = 0 \/ e.threw THEN e
    ELSE LET e1 == UninitializedCopyN(e, sbuf, si, n - 1, dbuf, di)
             e2 == CopyConstruct(e1, sbuf, si + n - 1, dbuf, di + n - 1)
         IN IF e1.threw THEN e1
            ELSE IF e2.threw THEN DestroyN(e2, dbuf, di, n - 1)
            ELSE [e2 EXCEPT !.ucopied = @ + 1]

RECURSIVE CopyN(_, _, _, _, _, _)
\* std::copy_n(src + si, n, dst + di)
CopyN(e, sbuf, si, n, dbuf, di) ==
    IF n = 0 THEN e
    ELSE CopyN(CopyAssign(e, sbuf, si, dbuf, di), sbuf, si + 1, n - 1, dbuf, di + 1)

RECURSIVE StdMove_FromTheBack(_, _, _, _, _)
\* std::move that walks the range from its last element to its first
StdMove_FromTheBack(e, buf, first, lst, dfirst) ==
    IF first >= lst THEN e
    ELSE StdMove_FromTheBack(MoveAssign(e, buf, lst - 1, buf, dfirst + (lst - 1 - first)),
                             buf, first, lst - 1, dfirst)

RECURSIVE StdMove(_, _, _, _, _)
\* std::move(buf + first, buf + lst, buf + dfirst): forward, element by element
StdMove(e, buf, first, lst, dfirst) ==
    IF first >= lst THEN e
    ELSE StdMove(MoveAssign(e, buf, first, buf, dfirst), buf, first + 1, lst, dfirst + 1)

RECURSIVE StdMoveBackward_FromTheFront(_, _, _, _, _)
\* std::move_backward that walks the range from its first element to its last
StdMoveBackward_FromTheFront(e, buf, first, lst, dlast) ==
    IF first >= lst THEN e
    ELSE StdMoveBackward_FromTheFront(MoveAssign(e, buf, first, buf, dlast - (lst - first)),
                                      buf, first + 1, lst, dlast)

RECURSIVE StdMoveBackward(_, _, _, _, _)
\* std::move_backward(buf + first, buf + lst, buf + dlast): from the back
StdMoveBackward(e, buf, first, lst, dlast) ==
    IF first >= lst THEN e
    ELSE StdMoveBackward(MoveAssign(e, buf, lst - 1, buf, dlast - 1), buf, first, lst - 1, dlast - 1)

\* relocation by move whatever the type
RelocateByMove_Always(t) == TRUE

\* the relocation rule without its second test
RelocateByMove_NothrowOnly(t) == t.nothrow_move

\* The relocation rule of the two `if constexpr` tests.
RelocateByMove(t) == t.nothrow_move \/ ~t.copyable

\* relocation of n elements from one block into another
RelocateN(t, e, sbuf, si, n, dbuf, di) ==
    IF RelocateByMove(t) THEN UninitializedMoveN(e, sbuf, si, n, dbuf, di)
    ELSE UninitializedCopyN(e, sbuf, si, n, dbuf, di)


\* ---------------------------------------------------------------- Vector
\* Vector() = default; also the record of a Vector that does not exist.
EmptyVector == [alive |-> TRUE, data_ |-> NullRaw, size_ |-> 0]
NoVector == [alive |-> FALSE, data_ |-> NullRaw, size_ |-> 0]

\* Size(), Capacity(), begin() and the elements operator[] gives for 0..Size()-1
Size(self) == self.size_
Capacity(self) == self.data_.capacity_
Begin(self) == self.data_.buffer_
Elems(self, m) == [i \in 1..self.size_ |-> m[self.data_.buffer_][i]]

\* An argument of Emplace: a value of the caller's (ext) or a reference to
\* the element at index idx of block buf, read when the element is built.
ExtArg(x) == [ext |-> TRUE, val |-> x, buf |-> NullPtr, idx |-> 0]
RefArg(buf, i) == [ext |-> FALSE, val |-> 0, buf |-> buf, idx |-> i]
ArgValue(e, arg) == IF arg.ext THEN arg.val ELSE Slot(e, arg.buf, arg.idx)

Iter(buf, i) == [buf |-> buf, idx |-> i]
NoIter == Iter(NullPtr, -1)

\* explicit Vector(size_t size)
VectorN(e, size) ==
    LET r == RawMemoryN(e, size)
    IN IF r.e.threw THEN [self |-> NoVector, e |-> r.e]
       ELSE [self |-> [alive |-> TRUE, data_ |-> r.raw, size_ |-> size],
             e |-> UninitializedValueConstructN(r.e, r.raw.buffer_, 0, size)]

\* a copy constructor that adopts the block of other
VectorCopy_Shallow(e, other) == [self |-> other, e |-> e]

\* Vector(const Vector& other)
VectorCopy(e, other) ==
    LET r == RawMemoryN(e, other.size_)
        e1 == UninitializedCopyN(r.e, other.data_.buffer_, 0, other.size_, r.raw.buffer_, 0)
    IN IF r.e.threw THEN [self |-> NoVector, e |-> r.e]
       ELSE IF e1.threw THEN [self |-> NoVector, e |-> RawDtor(e1, r.raw)]
       ELSE [self |-> [alive |-> TRUE, data_ |-> r.raw, size_ |-> other.size_], e |-> e1]

\* Swap that exchanges the blocks and leaves each size_ where it was
VectorSwap_KeepsSize(e, self, other) ==
    LET d == StdSwapRaw(e, self.data_, other.data_)
    IN [self |-> [self EXCEPT !.data_ = d.a],
        other |-> [other EXCEPT !.data_ = d.b],
        e |-> d.e]

\* Vector::Swap(Vector& other), other a different object
VectorSwap(e, self, other) ==
    LET d == StdSwapRaw(e, self.data_, other.data_)
    IN [self |-> [self EXCEPT !.data_ = d.a, !.size_ = other.size_],
        other |-> [other EXCEPT !.data_ = d.b, !.size_ = self.size_],
        e |-> d.e]

\* Vector::Swap(*this)
VectorSwapSelf(e, self) ==
    LET d == StdSwapRawSelf(e, self.data_)
    IN [self |-> [self EXCEPT !.data_ = d.a], e |-> d.e]

\* ~Vector, then ~RawMemory of data_
VectorDtor(e, self) ==
    LET e1 == IF self.size_ # 0 THEN DestroyN(e, self.data_.buffer_, 0, self.size_) ELSE e
    IN RawDtor(e1, self.data_)

\* Vector(Vector&& other)
VectorMove(e, other) == VectorSwap(e, EmptyVector, other)

\* Reserve that also reallocates when new_capacity equals the capacity
ReserveM_Strict(t, e, self, new_capacity) ==
    IF new_capacity < self.data_.capacity_ THEN [self |-> self, e |-> e]
    ELSE LET r == RawMemoryN(e, new_capacity)
             e1 == RelocateN(t, r.e, self.data_.buffer_, 0, self.size_, r.raw.buffer_, 0)
             e2 == DestroyN(e1, self.data_.buffer_, 0, self.size_)
             sw == RawSwap(self.data_, r.raw)
         IN IF r.e.threw THEN [self |-> self, e |-> r.e]
            ELSE [self |-> [self EXCEPT !.data_ = sw.self], e |-> RawDtor(e2, sw.other)]

\* Reserve that grows to at least twice the capacity
ReserveM_Doubling(t, e, self, new_capacity) ==
    IF new_capacity <= self.data_.capacity_ THEN [self |-> self, e |-> e]
    ELSE LET r == RawMemoryN(e, IF new_capacity < 2 * self.data_.capacity_
                                THEN 2 * self.data_.capacity_ ELSE new_capacity)
             e1 == RelocateN(t, r.e, self.data_.buffer_, 0, self.size_, r.raw.buffer_, 0)
             e2 == DestroyN(e1, self.data_.buffer_, 0, self.size_)
             sw == RawSwap(self.data_, r.raw)
         IN IF r.e.threw THEN [self |-> self, e |-> r.e]
            ELSE [self |-> [self EXCEPT !.data_ = sw.self], e |-> RawDtor(e2, sw.other)]

\* Vector::Reserve.  An exception of the relocation leaves through the
\* destructor of new_data.
ReserveM(t, e, self, new_capacity) ==
    IF new_capacity <= self.data_.capacity_ THEN [self |-> self, e |-> e]
    ELSE LET r == RawMemoryN(e, new_capacity)
             e1 == RelocateN(t, r.e, self.data_.buffer_, 0, self.size_, r.raw.buffer_, 0)
             e2 == DestroyN(e1, self.data_.buffer_, 0, self.size_)
             sw == RawSwap(self.data_, r.raw)
         IN IF r.e.threw THEN [self |-> self, e |-> r.e]
            ELSE IF e1.threw THEN [self |-> self, e |-> RawDtor(e1, r.raw)]
            ELSE [self |-> [self EXCEPT !.data_ = sw.self], e |-> RawDtor(e2, sw.other)]

\* Resize that shrinks without destroying the elements it drops
ResizeM_NoDestroy(t, e, self, new_size) ==
    IF new_size < self.size_
    THEN [self |-> [self EXCEPT !.size_ = new_size], e |-> e]
    ELSE LET r == ReserveM(t, e, self, new_size)
         IN IF r.e.threw THEN r
            ELSE [self |-> [r.self EXCEPT !.size_ = new_size],
                  e |-> UninitializedValueConstructN(r.e, r.self.data_.buffer_, r.self.size_,
                                                     new_size - r.self.size_)]

\* Resize that grows the block to at least twice its capacity
ResizeM_ReservesDouble(t, e, self, new_size) ==
    IF new_size < self.size_
    THEN [self |-> [self EXCEPT !.size_ = new_size],
          e |-> DestroyN(e, self.data_.buffer_, new_size, self.size_ - new_size)]
    ELSE LET r == ReserveM_Doubling(t, e, self, new_size)
         IN IF r.e.threw THEN r
            ELSE [self |-> [r.self EXCEPT !.size_ = new_size],
                  e |-> UninitializedValueConstructN(r.e, r.self.data_.buffer_, r.self.size_,
                                                     new_size - r.self.size_)]

\* Vector::Resize
ResizeM(t, e, self, new_size) ==
    IF new_size < self.size_
    THEN [self |-> [self EXCEPT !.size_ = new_size],
          e |-> DestroyN(e, self.data_.buffer_, new_size, self.size_ - new_size)]
    ELSE LET r == ReserveM(t, e, self, new_size)
         IN IF r.e.threw THEN r
            ELSE [self |-> [r.self EXCEPT !.size_ = new_size],
                  e |-> UninitializedValueConstructN(r.e, r.self.data_.buffer_, r.self.size_,
                                                     new_size - r.self.size_)]

\* PopBack that forgets the last element without destroying it
PopBackM_NoDestroy(e, self) ==
    IF self.size_ # 0
    THEN [self |-> [self EXCEPT !.size_ = @ - 1], e |-> e]
    ELSE [self |-> self, e |-> e]

\* Vector::PopBack
PopBackM(e, self) ==
    IF self.size_ # 0
    THEN [self |-> [self EXCEPT !.size_ = @ - 1],
          e |-> Destroy(e, self.data_.buffer_, self.size_ - 1)]
    ELSE [self |-> self, e |-> e]

\* data_[i_pos] = T(args...): a temporary is built, move-assigned, destroyed;
\* if T(args...) throws there is no temporary and nothing is assigned
AssignTemporary(e, buf, i, arg) ==
    IF e.threw THEN e
    ELSE IF e.fuse = 1 THEN [e EXCEPT !.threw = TRUE, !.fuse = 0]
    ELSE [e EXCEPT !.mem[buf][i + 1] = ArgValue(e, arg),
                   !.fuse = IF @ > 0 THEN @ - 1 ELSE 0,
                   !.ctors = @ + 1, !.assigns = @ + 1, !.dtors = @ + 1,
                   !.err = @ \cup (IF Raw \in {ArgValue(e, arg), e.mem[buf][i + 1]}
                                   THEN {"assigned_raw"} ELSE {})]

\* Vector::EmplaceNoAlloc.  ++size_ is its last statement: an exception
\* leaves size_ as it was, whatever the statements before it have done.
EmplaceNoAlloc(e, self, i_pos, arg) ==
    LET buf == self.data_.buffer_
        e1 == MoveConstruct(e, buf, self.size_ - 1, buf, self.size_)
        e2 == IF e1.threw THEN e1
              ELSE StdMoveBackward(e1, buf, i_pos, self.size_ - 1, self.size_)
        e3 == AssignTemporary(e2, buf, i_pos, arg)
        e4 == ConstructOrThrow(e, buf, i_pos, ArgValue(e, arg))
        e5 == IF self.size_ # i_pos THEN e3 ELSE e4
    IN IF e5.threw THEN [self |-> self, e |-> e5, ret |-> NoIter]
       ELSE [self |-> [self EXCEPT !.size_ = @ + 1], e |-> e5, ret |-> Iter(buf, i_pos)]

\* growth by one slot instead of doubling
NewSize_PlusOne(size) == size + 1

\* the capacity EmplaceNewAlloc asks for
NewSize(size) == IF size = 0 THEN 1 ELSE size * 2

\* EmplaceNewAlloc that relocates the old elements before it builds the new one
EmplaceNewAlloc_RelocateFirst(t, e, self, i_pos, arg) ==
    LET r == RawMemoryN(e, NewSize(self.size_))
        nb == r.raw.buffer_
        buf == self.data_.buffer_
        count_before == i_pos
        count_after == self.size_ - i_pos
        e1 == RelocateN(t, r.e, buf, 0, count_before, nb, 0)
        e2 == RelocateN(t, e1, buf, count_before, count_after, nb, count_before + 1)
        e3 == ConstructAt(e2, nb, i_pos, ArgValue(e2, arg))
        e4 == DestroyN(e3, buf, 0, self.size_)
        sw == RawSwap(self.data_, r.raw)
    IN IF r.e.threw THEN [self |-> self, e |-> r.e, ret |-> NoIter]
       ELSE [self |-> [self EXCEPT !.data_ = sw.self, !.size_ = @ + 1],
             e |-> RawDtor(e4, sw.other),
             ret |-> Iter(sw.self.buffer_, i_pos)]

\* Vector::EmplaceNewAlloc.  There is no handler: an exception of the new
\* element or of the relocation leaves through the destructor of new_data.
EmplaceNewAlloc(t, e, self, i_pos, arg) ==
    LET r == RawMemoryN(e, NewSize(self.size_))
        nb == r.raw.buffer_
        buf == self.data_.buffer_
        count_before == i_pos
        count_after == self.size_ - i_pos
        e1 == ConstructOrThrow(r.e, nb, i_pos, ArgValue(r.e, arg))
        e2 == RelocateN(t, e1, buf, 0, count_before, nb, 0)
        e3 == RelocateN(t, e2, buf, count_before, count_after, nb, count_before + 1)
        e4 == DestroyN(e3, buf, 0, self.size_)
        sw == RawSwap(self.data_, r.raw)
    IN IF r.e.threw THEN [self |-> self, e |-> r.e, ret |-> NoIter]
       ELSE IF e3.threw THEN [self |-> self, e |-> RawDtor(e3, r.raw), ret |-> NoIter]
       ELSE [self |-> [self EXCEPT !.data_ = sw.self, !.size_ = @ + 1],
             e |-> RawDtor(e4, sw.other),
             ret |-> Iter(sw.self.buffer_, i_pos)]

\* Vector::Emplace (Insert forwards to it)
Emplace(t, e, self, i_pos, arg) ==
    IF self.data_.capacity_ > self.size_
    THEN EmplaceNoAlloc(e, self, i_pos, arg)
    ELSE EmplaceNewAlloc(t, e, self, i_pos, arg)

\* Vector::EmplaceBack (PushBack forwards to it): Emplace(cend(), args...)
EmplaceBack(t, e, self, arg) == Emplace(t, e, self, self.size_, arg)

\* Erase that shifts one element too few
EraseM_ShortShift(e, self, i_pos) ==
    LET buf == self.data_.buffer_
        e1 == StdMove(e, buf, i_pos + 1, self.size_ - 1, i_pos)
        e2 == DestroyN(e1, buf, self.size_ - 1, 1)
    IN [self |-> [self EXCEPT !.size_ = @ - 1], e |-> e2, ret |-> Iter(buf, i_pos)]

\* Vector::Erase
EraseM(e, self, i_pos) ==
    LET buf == self.data_.buffer_
        e1 == StdMove(e, buf, i_pos + 1, self.size_, i_pos)
        e2 == DestroyN(e1, buf, self.size_ - 1, 1)
    IN [self |-> [self EXCEPT !.size_ = @ - 1], e |-> e2, ret |-> Iter(buf, i_pos)]

\* copy assignment that always goes through a copy and a Swap
CopyAssignM_AlwaysCopies(e, self, rhs) ==
    LET c == VectorCopy(e, rhs)
        sw == VectorSwap(c.e, self, c.self)
    IN IF c.e.threw THEN [self |-> self, e |-> c.e]
       ELSE [self |-> sw.self, e |-> VectorDtor(sw.e, sw.other)]

\* Vector::operator=(const Vector& rhs), this != &rhs
CopyAssignM(e, self, rhs) ==
    IF rhs.size_ > self.data_.capacity_
    THEN LET c == VectorCopy(e, rhs)
             sw == VectorSwap(c.e, self, c.self)
         IN IF c.e.threw THEN [self |-> self, e |-> c.e]
            ELSE [self |-> sw.self, e |-> VectorDtor(sw.e, sw.other)]
    ELSE LET n_to_copy == Min({self.size_, rhs.size_})
             sb == rhs.data_.buffer_
             db == self.data_.buffer_
             e1 == CopyN(e, sb, 0, n_to_copy, db, 0)
             e2 == IF rhs.size_ > self.size_
                   THEN UninitializedCopyN(e1, sb, n_to_copy, rhs.size_ - self.size_, db, n_to_copy)
                   ELSE DestroyN(e1, db, n_to_copy, self.size_ - rhs.size_)
         IN IF e2.threw THEN [self |-> self, e |-> e2]
            ELSE [self |-> [self EXCEPT !.size_ = rhs.size_], e |-> e2]


\* ----------------------------------------------------------------- state
NoOp == [op |-> "none", v |-> "-", n |-> -1, elems |-> <<>>, grew |-> FALSE]

TypeOK ==
    /\ elemType \in ElemTypes
    /\ \A v \in VecIds : vec[v].alive \in BOOLEAN
    /\ UsedSlots(mem) <= HeapSlots

\* a RawMemory that does not exist
NoRawMemory == [alive |-> FALSE, data |-> NullRaw]

\* Vector<T> a; and no other Vector yet.
Start ==
    /\ elemType \in ElemTypes
    /\ vec = [v \in VecIds |-> IF v = "a" THEN EmptyVector ELSE NoVector]
    /\ blocks = [r \in RawIds |-> NoRawMemory]
    /\ mem = [a \in Addr |-> <<>>]
    /\ balance = 0
    /\ err = {}
    /\ last = [op |-> "Vector", v |-> "a", w |-> "-", n |-> -1, argval |-> -1, alias |-> -1,
               ret |-> NoIter, pre |-> NoVector, preElems |-> <<>>,
               ctors |-> 0, dtors |-> 0, assigns |-> 0, allocs |-> <<>>, frees |-> <<>>,
               umoved |-> 0, ucopied |-> 0,
               fuse |-> 0, preOther |-> NoVector, preOtherElems |-> <<>>, prev |-> NoOp]

Init == Start /\ trace = FALSE

\* the Vector that is not v
OtherOf(v) == CHOOSE u \in VecIds : u # v

InitOne == Start /\ trace = TRUE

\* The effect of one public call that returned normally: the objects and the
\* heap it leaves, and what it did, recorded in `last`.
Commit(op, v, w, n, argval, alias, newvec, e, ret) ==
    /\ ~e.threw
    /\ vec' = newvec
    /\ mem' = e.mem
    /\ balance' = balance + e.ctors - e.dtors
    /\ err' = err \cup e.err
    /\ last' = IF ~trace THEN last ELSE
               [op |-> op, v |-> v, w |-> w, n |-> n, argval |-> argval, alias |-> alias,
                ret |-> ret, pre |-> vec[v], preElems |-> Elems(vec[v], mem),
                ctors |-> e.ctors, dtors |-> e.dtors, assigns |-> e.assigns,
                allocs |-> e.allocs, frees |-> e.frees,
                umoved |-> e.umoved, ucopied |-> e.ucopied, fuse |-> 0,
                preOther |-> vec[OtherOf(v)], preOtherElems |-> Elems(vec[OtherOf(v)], mem),
                prev |-> IF last.op = "Insert"
                         THEN [op |-> last.op, v |-> last.v, n |-> last.n,
                               elems |-> last.preElems, grew |-> last.allocs # <<>>]
                         ELSE NoOp]
    /\ UNCHANGED <<elemType, blocks, trace>>

\* The effect of one public call that ended in an exception: what the call
\* had done by then stays done.  fuse tells which construction threw (0:
\* none, operator new did).
Throw(op, v, n, argval, alias, fuse, newvec, e) ==
    /\ e.threw
    /\ vec' = newvec
    /\ mem' = e.mem
    /\ balance' = balance + e.ctors - e.dtors
    /\ err' = err \cup e.err
    /\ last' = IF ~trace THEN last ELSE
               [op |-> op, v |-> v, w |-> "-", n |-> n, argval |-> argval, alias |-> alias,
                ret |-> NoIter, pre |-> vec[v], preElems |-> Elems(vec[v], mem),
                ctors |-> e.ctors, dtors |-> e.dtors, assigns |-> e.assigns,
                allocs |-> e.allocs, frees |-> e.frees,
                umoved |-> e.umoved, ucopied |-> e.ucopied, fuse |-> fuse,
                preOther |-> vec[OtherOf(v)], preOtherElems |-> Elems(vec[OtherOf(v)], mem),
                prev |-> NoOp]
    /\ UNCHANGED <<elemType, blocks, trace>>

\* The arguments a caller can pass for a new element of Vector v: a value of
\* its own, or (const T&, copyable types) a reference to an element of v.
Args(v) ==
    {ExtArg(x) : x \in Values}
    \cup (IF elemType.copyable
          THEN {RefArg(vec[v].data_.buffer_, k) : k \in 0..(vec[v].size_ - 1)}
          ELSE {})

AliasOf(arg) == IF arg.ext THEN -1 ELSE arg.idx

\* --------------------------------------------------------------- actions
\* Vector<T> v;
DefaultConstruct(v) ==
    /\ ~vec[v].alive
    /\ Commit("Vector", v, "-", -1, -1, -1, [vec EXCEPT ![v] = EmptyVector], Ctx(mem), NoIter)

\* Vector<T> v(n);
SizeConstruct(v, n) ==
    /\ ~vec[v].alive
    /\ LET r == VectorN(Ctx(mem), n)
       IN Commit("Vector(n)", v, "-", n, -1, -1, [vec EXCEPT ![v] = r.self], r.e, NoIter)

\* Vector<T> v(w);
CopyConstructVec(v, w) ==
    /\ ~vec[v].alive /\ vec[w].alive /\ elemType.copyable
    /\ LET r == VectorCopy(Ctx(mem), vec[w])
       IN Commit("Vector(copy)", v, w, -1, -1, -1, [vec EXCEPT ![v] = r.self], r.e, NoIter)

\* Vector<T> v(std::move(w));
MoveConstructVec(v, w) ==
    /\ ~vec[v].alive /\ vec[w].alive
    /\ LET r == VectorMove(Ctx(mem), vec[w])
       IN Commit("Vector(move)", v, w, -1, -1, -1,
                 [vec EXCEPT ![v] = r.self, ![w] = r.other], r.e, NoIter)

\* v = w;
CopyAssignVec(v, w) ==
    /\ vec[v].alive /\ vec[w].alive /\ elemType.copyable
    /\ LET r == IF v # w THEN CopyAssignM(Ctx(mem), vec[v], vec[w])
                ELSE [self |-> vec[v], e |-> Ctx(mem)]
       IN Commit("operator=(copy)", v, w, -1, -1, -1, [vec EXCEPT ![v] = r.self], r.e, NoIter)

\* v = std::move(w);
MoveAssignVec(v, w) ==
    /\ vec[v].alive /\ vec[w].alive
    /\ IF v # w
       THEN LET r == VectorSwap(Ctx(mem), vec[v], vec[w])
            IN Commit("operator=(move)", v, w, -1, -1, -1,
                      [vec EXCEPT ![v] = r.self, ![w] = r.other], r.e, NoIter)
       ELSE LET r == VectorSwapSelf(Ctx(mem), vec[v])
            IN Commit("operator=(move)", v, w, -1, -1, -1,
                      [vec EXCEPT ![v] = r.self], r.e, NoIter)

\* v.Swap(w);
Swap(v, w) ==
    /\ vec[v].alive /\ vec[w].alive
    /\ IF v # w
       THEN LET r == VectorSwap(Ctx(mem), vec[v], vec[w])
            IN Commit("Swap", v, w, -1, -1, -1,
                      [vec EXCEPT ![v] = r.self, ![w] = r.other], r.e, NoIter)
       ELSE LET r == VectorSwapSelf(Ctx(mem), vec[v])
            IN Commit("Swap", v, w, -1, -1, -1, [vec EXCEPT ![v] = r.self], r.e, NoIter)

\* v goes out of scope
DestroyVec(v) ==
    /\ vec[v].alive
    /\ Commit("~Vector", v, "-", -1, -1, -1, [vec EXCEPT ![v] = NoVector],
              VectorDtor(Ctx(mem), vec[v]), NoIter)

\* v.Resize(n);
Resize(v, n) ==
    /\ vec[v].alive
    /\ LET r == ResizeM(elemType, Ctx(mem), vec[v], n)
       IN Commit("Resize", v, "-", n, -1, -1, [vec EXCEPT ![v] = r.self], r.e, NoIter)

\* v.Reserve(n);
Reserve(v, n) ==
    /\ vec[v].alive
    /\ LET r == ReserveM(elemType, Ctx(mem), vec[v], n)
       IN Commit("Reserve", v, "-", n, -1, -1, [vec EXCEPT ![v] = r.self], r.e, NoIter)

\* v.PushBack(x); / v.EmplaceBack(x);
PushBack(v, arg) ==
    /\ vec[v].alive
    /\ vec[v].size_ < vec[v].data_.capacity_ \/ NewSize(vec[v].size_) <= MaxCap
    /\ LET r == EmplaceBack(elemType, Ctx(mem), vec[v], arg)
       IN Commit("PushBack", v, "-", vec[v].size_, ArgValue(Ctx(mem), arg), AliasOf(arg),
                 [vec EXCEPT ![v] = r.self], r.e, r.ret)

\* v.PopBack();
PopBack(v) ==
    /\ vec[v].alive
    /\ LET r == PopBackM(Ctx(mem), vec[v])
       IN Commit("PopBack", v, "-", -1, -1, -1, [vec EXCEPT ![v] = r.self], r.e, NoIter)

\* v.Insert(v.begin() + pos, x); / v.Emplace(v.begin() + pos, x);
Insert(v, pos, arg) ==
    /\ vec[v].alive
    /\ pos \in 0..vec[v].size_
    /\ vec[v].size_ < vec[v].data_.capacity_ \/ NewSize(vec[v].size_) <= MaxCap
    /\ LET r == Emplace(elemType, Ctx(mem), vec[v], pos, arg)
       IN Commit("Insert", v, "-", pos, ArgValue(Ctx(mem), arg), AliasOf(arg),
                 [vec EXCEPT ![v] = r.self], r.e, r.ret)

\* v.Erase(v.begin() + pos);
Erase(v, pos) ==
    /\ vec[v].alive
    /\ pos \in 0..(vec[v].size_ - 1)
    /\ LET r == EraseM(Ctx(mem), vec[v], pos)
       IN Commit("Erase", v, "-", pos, -1, -1, [vec EXCEPT ![v] = r.self], r.e, r.ret)

\* v[i] = x;
Write(v, i, x) ==
    /\ vec[v].alive
    /\ i \in 0..(vec[v].size_ - 1)
    /\ Commit("operator[]", v, "-", i, x, -1, vec,
              AssignValue(Ctx(mem), vec[v].data_.buffer_, i, x), NoIter)

\* the elements that were constructed and are neither destroyed nor an
\* element of the Vector v: the count grows without limit over failing calls
Leaked(v) == balance - vec[v].size_

\* v.Reserve(n); ends in an exception
ReserveThrows(v, n, k) ==
    /\ vec[v].alive /\ Leaked(v) <= MaxLeaked
    /\ LET r == ReserveM(elemType, CtxThrowing(mem, elemType, k), vec[v], n)
       IN Throw("Reserve throws", v, n, -1, -1, k, [vec EXCEPT ![v] = r.self], r.e)

\* v.PushBack(x); / v.EmplaceBack(x); ends in an exception
PushBackThrows(v, arg, k) ==
    /\ vec[v].alive /\ Leaked(v) <= MaxLeaked
    /\ vec[v].size_ < vec[v].data_.capacity_ \/ NewSize(vec[v].size_) <= MaxCap
    /\ LET r == EmplaceBack(elemType, CtxThrowing(mem, elemType, k), vec[v], arg)
       IN Throw("PushBack throws", v, vec[v].size_, ArgValue(Ctx(mem), arg), AliasOf(arg), k,
                [vec EXCEPT ![v] = r.self], r.e)

\* v.Insert(v.begin() + pos, x); / v.Emplace(v.begin() + pos, x); ends in an exception
InsertThrows(v, pos, arg, k) ==
    /\ vec[v].alive /\ Leaked(v) <= MaxLeaked
    /\ pos \in 0..vec[v].size_
    /\ vec[v].size_ < vec[v].data_.capacity_ \/ NewSize(vec[v].size_) <= MaxCap
    /\ LET r == Emplace(elemType, CtxThrowing(mem, elemType, k), vec[v], pos, arg)
       IN Throw("Insert throws", v, pos, ArgValue(Ctx(mem), arg), AliasOf(arg), k,
                [vec EXCEPT ![v] = r.self], r.e)

Next ==
    \/ \E v \in VecIds : DefaultConstruct(v)
    \/ \E v \in VecIds, n \in 0..MaxCap : SizeConstruct(v, n)
    \/ \E v, w \in VecIds : CopyConstructVec(v, w)
    \/ \E v, w \in VecIds : MoveConstructVec(v, w)
    \/ \E v, w \in VecIds : CopyAssignVec(v, w)
    \/ \E v, w \in VecIds : MoveAssignVec(v, w)
    \/ \E v, w \in VecIds : Swap(v, w)
    \/ \E v \in VecIds : DestroyVec(v)
    \/ \E v \in VecIds, n \in 0..MaxCap : Resize(v, n)
    \/ \E v \in VecIds, n \in 0..MaxCap : Reserve(v, n)
    \/ \E v \in VecIds : \E arg \in Args(v) : PushBack(v, arg)
    \/ \E v \in VecIds : PopBack(v)
    \/ \E v \in VecIds, pos \in 0..MaxCap : \E arg \in Args(v) : Insert(v, pos, arg)
    \/ \E v \in VecIds, pos \in 0..MaxCap : Erase(v, pos)

Spec == Init /\ [][Next]_vars


\* One Vector on its own: every operation of the class on the object "a".
NextOne ==
    \/ DefaultConstruct("a")
    \/ \E n \in 0..MaxCap : SizeConstruct("a", n)
    \/ CopyAssignVec("a", "a")
    \/ MoveAssignVec("a", "a")
    \/ Swap("a", "a")
    \/ DestroyVec("a")
    \/ \E n \in 0..MaxCap : Resize("a", n)
    \/ \E n \in 0..MaxCap : Reserve("a", n)
    \/ \E arg \in Args("a") : PushBack("a", arg)
    \/ PopBack("a")
    \/ \E pos \in 0..MaxCap : \E arg \in Args("a") : Insert("a", pos, arg)
    \/ \E pos \in 0..MaxCap : Erase("a", pos)

SpecOne == InitOne /\ [][NextOne]_vars


\* The effect of a call on RawMemory objects alone.
RawStep(newraw, e) ==
    /\ ~e.threw
    /\ blocks' = newraw
    /\ mem' = e.mem
    /\ err' = err \cup e.err
    /\ UNCHANGED <<elemType, vec, trace, last, balance>>

\* RawMemory<T> r(n);
RawConstruct(r, n) ==
    /\ ~blocks[r].alive
    /\ LET c == RawMemoryN(Ctx(mem), n)
       IN RawStep([blocks EXCEPT ![r] = [alive |-> TRUE, data |-> c.raw]], c.e)

\* RawMemory<T> r(std::move(s));
RawMoveConstruct(r, s) ==
    /\ ~blocks[r].alive /\ blocks[s].alive
    /\ LET c == RawMoveCtor(blocks[s].data)
       IN RawStep([blocks EXCEPT ![r] = [alive |-> TRUE, data |-> c.self], ![s].data = c.other],
                  Ctx(mem))

\* r = std::move(s);
RawMoveAssignment(r, s) ==
    /\ blocks[r].alive /\ blocks[s].alive
    /\ IF r # s
       THEN LET c == RawMoveAssign(blocks[r].data, blocks[s].data)
            IN RawStep([blocks EXCEPT ![r].data = c.self, ![s].data = c.rhs], Ctx(mem))
       ELSE RawStep([blocks EXCEPT ![r].data = RawMoveAssignSelf(blocks[r].data)], Ctx(mem))

\* r.Swap(s);
RawSwapCall(r, s) ==
    /\ blocks[r].alive /\ blocks[s].alive
    /\ LET c == RawSwap(blocks[r].data, blocks[s].data)
       IN RawStep([blocks EXCEPT ![r].data = c.self, ![s].data = IF r # s THEN c.other ELSE c.self],
                  Ctx(mem))

\* r goes out of scope
RawDestroy(r) ==
    /\ blocks[r].alive
    /\ RawStep([blocks EXCEPT ![r] = NoRawMemory], RawDtor(Ctx(mem), blocks[r].data))

\* RawMemory objects on their own, no Vector around them.
InitRaw ==
    /\ elemType = [nothrow_move |-> TRUE, copyable |-> TRUE]
    /\ vec = [v \in VecIds |-> NoVector]
    /\ blocks = [r \in RawIds |-> NoRawMemory]
    /\ mem = [a \in Addr |-> <<>>]
    /\ trace = FALSE
    /\ balance = 0
    /\ err = {}
    /\ last = NoOp

NextRaw ==
    \/ \E r \in RawIds, n \in 0..MaxCap : RawConstruct(r, n)
    \/ \E r, s \in RawIds : RawMoveConstruct(r, s)
    \/ \E r, s \in RawIds : RawMoveAssignment(r, s)
    \/ \E r, s \in RawIds : RawSwapCall(r, s)
    \/ \E r \in RawIds : RawDestroy(r)

SpecRaw == InitRaw /\ [][NextRaw]_vars


\* no block of a Vector has more than MaxCapTwo slots
FitsTwo == \A v \in VecIds : vec[v].data_.capacity_ <= MaxCapTwo

\* Two Vectors with every call recorded, on blocks of at most MaxCapTwo
\* slots: construction, copy and move, assignment, Swap and destruction, and
\* the calls that change one Vector after it was copied or moved.
NextTwo ==
    \/ \E v \in VecIds : DefaultConstruct(v) /\ FitsTwo'
    \/ \E v \in VecIds, n \in 0..MaxCap : SizeConstruct(v, n) /\ FitsTwo'
    \/ \E v, w \in VecIds : CopyConstructVec(v, w) /\ FitsTwo'
    \/ \E v, w \in VecIds : MoveConstructVec(v, w) /\ FitsTwo'
    \/ \E v, w \in VecIds : CopyAssignVec(v, w) /\ FitsTwo'
    \/ \E v, w \in VecIds : MoveAssignVec(v, w) /\ FitsTwo'
    \/ \E v, w \in VecIds : Swap(v, w) /\ FitsTwo'
    \/ \E v \in VecIds : DestroyVec(v) /\ FitsTwo'
    \/ \E v \in VecIds, n \in 0..MaxCap : Resize(v, n) /\ FitsTwo'
    \/ \E v \in VecIds, x \in Values : PushBack(v, ExtArg(x)) /\ FitsTwo'
    \/ \E v \in VecIds, pos \in 0..MaxCap : Erase(v, pos) /\ FitsTwo'
    \/ \E v \in VecIds, i \in 0..MaxCap, x \in Values : Write(v, i, x) /\ FitsTwo'

SpecTwo == InitOne /\ [][NextTwo]_vars


\* the block of the Vector "a" has no more than MaxCapThrow slots
FitsThrow == vec["a"].data_.capacity_ <= MaxCapThrow

\* One Vector on its own, with element constructors that can throw: the calls
\* of SpecOne, and the calls of Reserve, PushBack and Insert in which the
\* k-th throwing construction throws (k = 0: only operator new can), on
\* blocks of at most MaxCapThrow slots.
NextThrow ==
    \/ DefaultConstruct("a") /\ FitsThrow'
    \/ \E n \in 0..MaxCap : SizeConstruct("a", n) /\ FitsThrow'
    \/ CopyAssignVec("a", "a") /\ FitsThrow'
    \/ MoveAssignVec("a", "a") /\ FitsThrow'
    \/ Swap("a", "a") /\ FitsThrow'
    \/ DestroyVec("a") /\ FitsThrow'
    \/ \E n \in 0..MaxCap : Resize("a", n) /\ FitsThrow'
    \/ \E n \in 0..MaxCap : Reserve("a", n) /\ FitsThrow'
    \/ \E arg \in Args("a") : PushBack("a", arg) /\ FitsThrow'
    \/ PopBack("a") /\ FitsThrow'
    \/ \E pos \in 0..MaxCap : \E arg \in Args("a") : Insert("a", pos, arg) /\ FitsThrow'
    \/ \E pos \in 0..MaxCap : Erase("a", pos) /\ FitsThrow'
    \/ \E n \in 0..MaxCap, k \in 0..MaxThrowAt : ReserveThrows("a", n, k) /\ FitsThrow'
    \/ \E k \in 0..MaxThrowAt : \E arg \in Args("a") : PushBackThrows("a", arg, k) /\ FitsThrow'
    \/ \E pos \in 0..MaxCap, k \in 0..MaxThrowAt : \E arg \in Args("a") :
          InsertThrows("a", pos, arg, k) /\ FitsThrow'

SpecThrow == InitOne /\ [][NextThrow]_vars


\* ---------------------------------------------------------------- claims
\* the Vector the last recorded call was made on, and its elements now
Target == vec[last.v]
Now == Elems(Target, mem)
Before == last.preElems

RECURSIVE SumSizes(_)
SumSizes(S) ==
    IF S = {} THEN 0
    ELSE LET v == CHOOSE x \in S : TRUE IN vec[v].size_ + SumSizes(S \ {v})

\* the sequence s with x put in front of its element at index pos (from 0)
InsertedAt(s, pos, x) == SubSeq(s, 1, pos) \o <<x>> \o SubSeq(s, pos + 1, Len(s))
\* the sequence s without its element at index pos (from 0)
RemovedAt(s, pos) == SubSeq(s, 1, pos) \o SubSeq(s, pos + 2, Len(s))

\* C1: after any sequence of public operations that return normally, every
\* Vector has 0 <= Size() <= Capacity().
SizeWithinCapacity ==
    \A v \in VecIds :
        vec[v].alive => 0 <= Size(vec[v]) /\ Size(vec[v]) <= Capacity(vec[v])

\* C1 witness: two Vectors, one full at the largest capacity, one with room.
SizeWithinCapacity_Witness ==
    /\ vec["a"].alive /\ vec["b"].alive
    /\ Size(vec["a"]) = MaxCap /\ Capacity(vec["a"]) = MaxCap
    /\ Size(vec["b"]) = 1 /\ Capacity(vec["b"]) = 2

\* C2: exactly the slots [0, size) of the owned block hold constructed
\* elements and the slots [size, capacity) hold none; constructions minus
\* destructions equals the number of live elements; no element is destroyed
\* twice and no block is released with a live element in it.
LiveSlots ==
    /\ \A v \in VecIds :
          vec[v].alive =>
             LET b == vec[v].data_.buffer_
                 c == vec[v].data_.capacity_
             IN /\ (c = 0) = (b = NullPtr)
                /\ c # 0 => /\ Len(mem[b]) = c
                            /\ \A i \in 1..c : (i <= vec[v].size_) = (mem[b][i] # Raw)
    /\ balance = SumSizes({v \in VecIds : vec[v].alive})
    /\ err = {}

\* C2 witness: a Vector with live and raw slots beside a full one.
LiveSlots_Witness ==
    /\ vec["a"].alive /\ vec["b"].alive
    /\ Size(vec["a"]) = 2 /\ Capacity(vec["a"]) = 4
    /\ Size(vec["b"]) = 2 /\ Capacity(vec["b"]) = 2
    /\ balance = 4


\* C3: after PushBack(v) on a Vector of size s, also with v an element of the
\* same Vector: the size is s+1, the capacity is at least s+1, the element at
\* index s is v and the elements at [0, s) are what they were.
PushBackAppends ==
    last.op = "PushBack" =>
        /\ Size(Target) = last.pre.size_ + 1
        /\ Capacity(Target) >= last.pre.size_ + 1
        /\ Now[last.pre.size_ + 1] = last.argval
        /\ \A i \in 1..last.pre.size_ : Now[i] = Before[i]

\* C3 witness: a push of the Vector's own first element that had to grow the
\* block, for a type that is relocated by move.
PushBackAppends_Witness ==
    /\ last.op = "PushBack" /\ last.alias = 0
    /\ last.pre.size_ = 2 /\ last.allocs # <<>>
    /\ RelocateByMove(elemType)
    /\ Before[1] # Before[2]

\* C4: an insertion called with size = capacity leaves capacity 1 if it was 0
\* and twice the old capacity otherwise; called with size < capacity it
\* allocates no block and leaves the capacity as it was.
GrowthDoubles ==
    last.op \in {"PushBack", "Insert"} =>
        IF last.pre.size_ = last.pre.data_.capacity_
        THEN /\ Capacity(Target) = (IF last.pre.data_.capacity_ = 0 THEN 1
                                    ELSE 2 * last.pre.data_.capacity_)
             /\ Len(last.allocs) = 1
        ELSE /\ Capacity(Target) = last.pre.data_.capacity_
             /\ Target.data_ = last.pre.data_
             /\ last.allocs = <<>>

\* C4 witness: a push on a full Vector of capacity 2 that left capacity 4.
GrowthDoubles_Witness ==
    /\ last.op = "PushBack"
    /\ last.pre.size_ = 2 /\ last.pre.data_.capacity_ = 2
    /\ Capacity(Target) = 4

\* C5: Insert(pos, v) with v not an element of the Vector yields
\* e[0..pos), v, e[pos..s), size s+1, and returns the iterator to index pos
\* of the block the Vector owns afterwards, on either path.
InsertPlaces ==
    (last.op = "Insert" /\ last.alias = -1) =>
        /\ Size(Target) = last.pre.size_ + 1
        /\ Now = InsertedAt(Before, last.n, last.argval)
        /\ last.ret = Iter(Begin(Target), last.n)

\* C5 witness: an insertion in the middle of three elements, with room to spare.
InsertPlaces_Witness ==
    /\ last.op = "Insert" /\ last.alias = -1
    /\ last.pre.size_ = 3 /\ last.n = 1 /\ last.allocs = <<>>
    /\ Before[1] # Before[2] /\ last.argval # Before[2]

\* C6: Insert(pos, x) with spare capacity, pos in [0, size) and x a reference
\* to the Vector's own element at index k leaves at index pos the value that
\* index k held before the call, the previous elements in order around it.
InsertAliased ==
    (/\ last.op = "Insert" /\ last.alias >= 0
     /\ last.pre.size_ < last.pre.data_.capacity_
     /\ last.n < last.pre.size_) =>
        Now = InsertedAt(Before, last.n, Before[last.alias + 1])

\* C7: Erase(pos) yields e[0..pos), e[pos+1..s), size s-1, the same block and
\* capacity, destroys exactly one element (the last slot) and returns the
\* iterator to index pos.
EraseRemoves ==
    last.op = "Erase" =>
        /\ Size(Target) = last.pre.size_ - 1
        /\ Now = RemovedAt(Before, last.n)
        /\ Target.data_ = last.pre.data_
        /\ last.allocs = <<>> /\ last.frees = <<>>
        /\ last.ctors = 0 /\ last.dtors = 1
        /\ mem[Begin(Target)][last.pre.size_] = Raw
        /\ last.ret = Iter(Begin(Target), last.n)

\* C7 witness: the first of three elements erased.
EraseRemoves_Witness ==
    /\ last.op = "Erase" /\ last.n = 0
    /\ last.pre.size_ = 3
    /\ Before[2] # Before[3]

\* C8: Insert(pos, v) immediately followed by Erase(pos) restores the
\* sequence: same size, same elements, same order, on either insertion path.
InsertThenErase ==
    (/\ last.op = "Erase" /\ last.prev.op = "Insert"
     /\ last.prev.v = last.v /\ last.prev.n = last.n) =>
        /\ Size(Target) = Len(last.prev.elems)
        /\ Now = last.prev.elems

\* C8 witness: an insertion that reallocated, in the middle, then the erasure.
InsertThenErase_Witness ==
    /\ last.op = "Erase" /\ last.prev.op = "Insert"
    /\ last.prev.v = last.v /\ last.prev.n = last.n
    /\ last.prev.grew /\ last.n = 1
    /\ Len(last.prev.elems) = 2 /\ last.prev.elems[1] # last.prev.elems[2]

\* C9: Reserve(n) with n <= Capacity() changes nothing: capacity, size, block
\* and elements stay, no block is allocated or released, and no element is
\* constructed, assigned or destroyed.
ReserveWithinCapacity ==
    (last.op = "Reserve" /\ last.n <= last.pre.data_.capacity_) =>
        /\ Target = last.pre
        /\ Now = Before
        /\ last.allocs = <<>> /\ last.frees = <<>>
        /\ last.ctors = 0 /\ last.dtors = 0 /\ last.assigns = 0

\* C9 witness: Reserve of exactly the capacity on a Vector with elements.
ReserveWithinCapacity_Witness ==
    /\ last.op = "Reserve" /\ last.n = last.pre.data_.capacity_
    /\ last.pre.size_ = 2

\* C10: Reserve(n) with n > Capacity() leaves capacity exactly n, the size
\* and every element as they were; the old block is released once and each
\* of its elements is destroyed once.
ReserveGrows ==
    (last.op = "Reserve" /\ last.n > last.pre.data_.capacity_) =>
        /\ Capacity(Target) = last.n
        /\ Size(Target) = last.pre.size_
        /\ Now = Before
        /\ Len(last.allocs) = 1 /\ Begin(Target) = last.allocs[1]
        /\ last.frees = (IF last.pre.data_.buffer_ = NullPtr THEN <<>>
                         ELSE <<last.pre.data_.buffer_>>)
        /\ last.pre.data_.buffer_ # NullPtr => mem[last.pre.data_.buffer_] = <<>>
        /\ last.ctors = last.pre.size_ /\ last.dtors = last.pre.size_
        /\ err = {}

\* C10 witness: a full Vector of two elements reserved to 3 (not twice 2).
ReserveGrows_Witness ==
    /\ last.op = "Reserve" /\ last.n = 3
    /\ last.pre.data_.capacity_ = 2 /\ last.pre.size_ = 2
    /\ Before[1] # Before[2]

\* the element type is one that is relocated by copy
CopyRelocated == elemType.copyable /\ ~elemType.nothrow_move

\* the last call threw out of the copy of an old element into a new block
ThrewInRelocation ==
    /\ last.allocs # <<>>
    /\ \/ last.op = "Reserve throws"
       \/ last.op \in {"PushBack throws", "Insert throws"} /\ last.fuse >= 2

\* C11: for a type relocated by copy, if a copy construction throws during
\* the relocation of Reserve(n > capacity) or of PushBack/Emplace/Insert
\* without spare capacity, the Vector has the size, the capacity, the block
\* and the element values it had before the call.
RelocationFailureRollsBack ==
    (CopyRelocated /\ ThrewInRelocation) =>
        /\ Target = last.pre
        /\ Now = Before
        /\ mem[Begin(Target)] = mem[last.pre.data_.buffer_]

\* C11 witness: an insertion in the middle of a full Vector of two, where the
\* copy of the suffix throws after the prefix has been copied.
RelocationFailureRollsBack_Witness ==
    /\ CopyRelocated /\ ThrewInRelocation
    /\ last.op = "Insert throws" /\ last.n = 1 /\ last.fuse = 3
    /\ last.pre.size_ = 2 /\ last.pre.data_.capacity_ = 2
    /\ Before[1] # Before[2]

\* C12: if the construction of the new element throws during Emplace/Insert
\* at pos < size on a Vector with spare capacity (the last element has been
\* moved to the end slot by then), the size and the values at [0, size) are
\* after the failure what they were before the call.
SpareInsertFailureRollsBack ==
    (/\ last.op = "Insert throws"
     /\ last.pre.size_ < last.pre.data_.capacity_
     /\ last.n < last.pre.size_
     /\ last.ctors = 1) =>
        /\ Size(Target) = last.pre.size_
        /\ Now = Before

\* C13: if an element construction throws during PushBack/Emplace/Insert,
\* every element the failed call constructed has been destroyed by the time
\* the exception leaves it, and the elements constructed and not destroyed
\* are as many as Size().
FailureDestroysWhatItBuilt ==
    (last.op \in {"PushBack throws", "Insert throws"} /\ last.fuse >= 1) =>
        /\ last.ctors = last.dtors
        /\ balance = Size(Target)
        /\ err = {}

\* the Vector the last call was not made on (its second operand, if it had
\* one), and that Vector's elements now
Other == vec[OtherOf(last.v)]
OtherNow == Elems(Other, mem)
OtherUnchanged == Other = last.preOther /\ OtherNow = last.preOtherElems

Max(x, y) == IF x >= y THEN x ELSE y

\* C14: the copy constructor yields size other.size, capacity exactly
\* other.size, elements equal to other's and a block of its own, and leaves
\* other as it was; a later element write, push, erase, resize or
\* destruction of either Vector leaves the other one's size and elements
\* unchanged.
CopyIsIndependent ==
    /\ last.op = "Vector(copy)" =>
          /\ Size(Target) = last.preOther.size_
          /\ Capacity(Target) = last.preOther.size_
          /\ Now = last.preOtherElems
          /\ OtherUnchanged
          /\ Size(Target) > 0 => Begin(Target) \notin {NullPtr, Begin(Other)}
    /\ last.op \in {"operator[]", "PushBack", "Erase", "Resize", "~Vector"} => OtherUnchanged

\* C14 witness: the copy of a Vector that holds one element, not the default
\* value, in a block of two: the copy has capacity one.
CopyIsIndependent_Witness ==
    /\ last.op = "Vector(copy)"
    /\ last.preOther.size_ = 1 /\ last.preOther.data_.capacity_ = 2
    /\ last.preOtherElems[1] # DefaultVal
    /\ Capacity(Target) = 1

\* C15: after a = b (a and b different objects) a has b's size and values and
\* b is unchanged; if b.size exceeded a's capacity the capacity is exactly
\* b.size, a's old elements are all destroyed and its old block is released;
\* otherwise a keeps its block and capacity, nothing is allocated, exactly
\* max(0, a.size - b.size) elements are destroyed and max(0, b.size - a.size)
\* constructed; a = a changes nothing.
CopyAssignment ==
    last.op = "operator=(copy)" =>
        IF last.v = last.w
        THEN /\ Target = last.pre /\ Now = Before
             /\ last.ctors = 0 /\ last.dtors = 0 /\ last.assigns = 0
             /\ last.allocs = <<>> /\ last.frees = <<>>
        ELSE /\ Size(Target) = last.preOther.size_
             /\ Now = last.preOtherElems
             /\ OtherUnchanged
             /\ IF last.preOther.size_ > last.pre.data_.capacity_
                THEN /\ Capacity(Target) = last.preOther.size_
                     /\ last.dtors = last.pre.size_
                     /\ last.frees = (IF last.pre.data_.buffer_ = NullPtr THEN <<>>
                                      ELSE <<last.pre.data_.buffer_>>)
                     /\ Begin(Target) \notin {NullPtr, last.pre.data_.buffer_}
                ELSE /\ Target.data_ = last.pre.data_
                     /\ last.allocs = <<>> /\ last.frees = <<>>
                     /\ last.dtors = Max(0, last.pre.size_ - last.preOther.size_)
                     /\ last.ctors = Max(0, last.preOther.size_ - last.pre.size_)

\* C15 witness: two elements assigned to a Vector of one element and capacity one.
CopyAssignment_Witness ==
    /\ last.op = "operator=(copy)" /\ last.v # last.w
    /\ last.pre.size_ = 1 /\ last.pre.data_.capacity_ = 1
    /\ last.preOther.size_ = 2
    /\ last.preOtherElems[1] # last.preOtherElems[2]

\* C16: after move construction the new Vector has the source's size,
\* capacity, block and elements and the source has size 0 and capacity 0;
\* after a = std::move(b) a has what b had and b has what a had; a self move
\* assignment changes nothing; no element is built or destroyed by a move,
\* and once every Vector is destroyed every element has been destroyed once
\* and every block released once.
MoveTransfers ==
    /\ last.op = "Vector(move)" =>
          /\ Target.data_ = last.preOther.data_ /\ Size(Target) = last.preOther.size_
          /\ Now = last.preOtherElems
          /\ Other = EmptyVector
          /\ last.ctors = 0 /\ last.dtors = 0 /\ last.allocs = <<>> /\ last.frees = <<>>
    /\ last.op = "operator=(move)" =>
          /\ last.ctors = 0 /\ last.dtors = 0 /\ last.allocs = <<>> /\ last.frees = <<>>
          /\ IF last.v = last.w
             THEN Target = last.pre /\ Now = Before
             ELSE /\ Target = last.preOther /\ Now = last.preOtherElems
                  /\ Other = last.pre /\ OtherNow = Before
    /\ (\A v \in VecIds : ~vec[v].alive) =>
          /\ balance = 0
          /\ \A a \in Addr : mem[a] = <<>>
          /\ err = {}

\* C16 witness: a move assignment between a Vector of two elements and a
\* Vector of one element in a block of two.
MoveTransfers_Witness ==
    /\ last.op = "operator=(move)" /\ last.v # last.w
    /\ last.pre.size_ = 2
    /\ last.preOther.size_ = 1 /\ last.preOther.data_.capacity_ = 2
    /\ Before[1] # Before[2]

\* C17: Resize(n) on size s and capacity c.  n < s: size n, [0, n) unchanged,
\* exactly s - n elements destroyed, block and capacity unchanged.  n >= s:
\* size n, [0, s) unchanged, [s, n) hold the default value, capacity
\* max(c, n): exactly n when n > c, and no reallocation when n <= c.
ResizeSetsSize ==
    last.op = "Resize" =>
        LET s == last.pre.size_
            c == last.pre.data_.capacity_
            n == last.n
        IN /\ Size(Target) = n
           /\ IF n < s
              THEN /\ \A i \in 1..n : Now[i] = Before[i]
                   /\ last.dtors = s - n /\ last.ctors = 0
                   /\ Target.data_ = last.pre.data_
                   /\ last.allocs = <<>> /\ last.frees = <<>>
              ELSE /\ \A i \in 1..s : Now[i] = Before[i]
                   /\ \A i \in (s + 1)..n : Now[i] = DefaultVal
                   /\ Capacity(Target) = Max(c, n)
                   /\ n > c => Capacity(Target) = n /\ Len(last.allocs) = 1
                   /\ n <= c => Target.data_ = last.pre.data_ /\ last.allocs = <<>>

\* C17 witness: one element, not the default value, in a block of two,
\* resized to three.
ResizeSetsSize_Witness ==
    /\ last.op = "Resize" /\ last.n = 3
    /\ last.pre.size_ = 1 /\ last.pre.data_.capacity_ = 2
    /\ Before[1] # DefaultVal

\* C18: PopBack on size 0 changes nothing; on size s >= 1 it destroys exactly
\* the element at index s - 1 and leaves size s - 1, with capacity, block and
\* the elements at [0, s - 1) unchanged.
PopBackDropsLast ==
    last.op = "PopBack" =>
        /\ Target.data_ = last.pre.data_
        /\ last.ctors = 0 /\ last.assigns = 0
        /\ last.allocs = <<>> /\ last.frees = <<>>
        /\ IF last.pre.size_ = 0
           THEN Size(Target) = 0 /\ last.dtors = 0
           ELSE /\ Size(Target) = last.pre.size_ - 1
                /\ \A i \in 1..(last.pre.size_ - 1) : Now[i] = Before[i]
                /\ last.dtors = 1
                /\ mem[Begin(Target)][last.pre.size_] = Raw

\* C18 witness: PopBack on two different elements in a block of four.
PopBackDropsLast_Witness ==
    /\ last.op = "PopBack"
    /\ last.pre.size_ = 2 /\ last.pre.data_.capacity_ = 4
    /\ Before[1] # Before[2]

\* the last call moved the elements into a new block: Reserve above the
\* capacity, or PushBack/Insert on a full Vector
Reallocated ==
    \/ last.op = "Reserve" /\ last.n > last.pre.data_.capacity_
    \/ last.op \in {"PushBack", "Insert"} /\ last.pre.size_ = last.pre.data_.capacity_

\* C19: Reserve and Emplace/Insert/PushBack without spare capacity relocate
\* by the same rule: by move if T is nothrow-move-constructible or not
\* copy-constructible, by copy otherwise; each of the size old elements is
\* relocated exactly once and then destroyed exactly once.
SameRelocationRule ==
    Reallocated =>
        LET s == last.pre.size_
            new == IF last.op = "Reserve" THEN 0 ELSE 1
        IN /\ IF elemType.nothrow_move \/ ~elemType.copyable
              THEN last.umoved = s /\ last.ucopied = 0
              ELSE last.ucopied = s /\ last.umoved = 0
           /\ last.ctors = s + new
           /\ last.dtors = s
           /\ Now = (IF last.op = "Reserve" THEN Before
                     ELSE InsertedAt(Before, last.n, Now[last.n + 1]))
           /\ last.pre.data_.buffer_ # NullPtr => mem[last.pre.data_.buffer_] = <<>>
           /\ err = {}

\* C19 witness: an insertion in the middle of a full Vector of two elements
\* of a type that cannot be copied and whose move constructor may throw.
SameRelocationRule_Witness ==
    /\ Reallocated /\ last.op = "Insert" /\ last.n = 1
    /\ last.pre.size_ = 2 /\ Before[1] # Before[2]
    /\ ~elemType.copyable /\ ~elemType.nothrow_move

\* C20: over any sequence of RawMemory operations (construction with a
\* capacity, move construction, move assignment onto an empty or a non-empty
\* block, Swap, destruction) every allocated region is owned by at most one
\* block at a time and, once all blocks are destroyed, has been released
\* exactly once: none is leaked, none is released twice.
RawMemoryOwnsExclusively ==
    /\ \A r, s \in RawIds :
          (r # s /\ blocks[r].alive /\ blocks[s].alive /\ blocks[r].data.buffer_ # NullPtr) =>
             blocks[r].data.buffer_ # blocks[s].data.buffer_
    /\ (\A r \in RawIds : ~blocks[r].alive) => \A a \in Addr : mem[a] = <<>>
    /\ "double_free" \notin err

====
